---- MODULE Spec2Model ----
(***************************************************************************)
(* Model of the Snakemake task provider (src/src/extension.ts).            *)
(*                                                                         *)
(* The extension registers a task provider whose provideTasks memoizes one *)
(* promise (snakemakePromise) of the discovery pass getSnakemakeTasks, and *)
(* a file watcher whose three handlers clear that promise.  A discovery    *)
(* pass suspends twice: at the fs.exists callback and at the cp.exec       *)
(* callback.  JavaScript runs every callback to completion, so each action *)
(* below is one callback (or one synchronous call from the host).          *)
(*                                                                         *)
(* The model starts after activate() has run with a workspace root, i.e.   *)
(* with the provider and the watcher registered.                           *)
(*                                                                         *)
(* Text is modelled as a sequence of one-character strings.                *)
(***************************************************************************)
EXTENDS Integers, Sequences, FiniteSets

VARIABLES
    snakemakePromise,  \* the cache slot: 0 is undefined, else the id of a pass
    passes,            \* the discovery passes started so far, by id
    requests,          \* what each provideTasks call returned (history)
    epoch,             \* number of file-watch notifications delivered (history)
    channel,           \* lines appended to the output channel
    shows,             \* number of show(true) calls on the output channel
    sink,              \* the calls made on the output channel, in order
    lastResolve        \* what the last resolveTask call returned (history)

vars == <<snakemakePromise, passes, requests, epoch, channel, shows, sink, lastResolve>>

----------------------------------------------------------------------------
(* Bounds of the model *)

MaxPasses == 2
MaxRequests == 3
MaxEvents == 2
MaxLines == 2

----------------------------------------------------------------------------
(* Text *)

CR == "\r"
LF == "\n"

RECURSIVE Concat(_)
Concat(ss) == IF ss = << >> THEN << >> ELSE Head(ss) \o Concat(Tail(ss))

sBuild == <<"b", "u", "i", "l", "d">>
sCompile == <<"c", "o", "m", "p", "i", "l", "e">>
sWatch == <<"w", "a", "t", "c", "h">>
sTest == <<"t", "e", "s", "t">>

buildNames == <<sBuild, sCompile, sWatch>>
testNames == <<sTest>>

FailedMessage == <<"Auto detecting Snakemake tasts failed.">>

\* String.prototype.indexOf: the 0-based index of the first occurrence, or -1.
IndexOf(s, sub) ==
    LET hits == {i \in 1..(Len(s) - Len(sub) + 1) : SubSeq(s, i, i + Len(sub) - 1) = sub}
    IN  IF hits = {} THEN -1
        ELSE (CHOOSE i \in hits : \A j \in hits : i <= j) - 1

isBuildTask(name) == \E k \in 1..Len(buildNames) : IndexOf(name, buildNames[k]) # -1

isTestTask(name) == \E k \in 1..Len(testNames) : IndexOf(name, testNames[k]) # -1

\* stdout.split(/\r{0,1}\n/): scan left to right; at i the pattern matches CR LF
\* (two characters) or LF (one); the text before each match is one piece, and
\* the text after the last match is the last piece.
RECURSIVE SplitFrom(_, _, _)
SplitFrom(s, i, cur) ==
    IF i > Len(s) THEN <<cur>>
    ELSE IF s[i] = CR /\ i + 1 <= Len(s) /\ s[i + 1] = LF
         THEN <<cur>> \o SplitFrom(s, i + 2, << >>)
    ELSE IF s[i] = LF
         THEN <<cur>> \o SplitFrom(s, i + 1, << >>)
    ELSE SplitFrom(s, i + 1, Append(cur, s[i]))

\* a split on LF alone, which leaves the CR of a CR LF ending in the name
RECURSIVE SplitLFFrom(_, _, _)
SplitLFFrom(s, i, cur) ==
    IF i > Len(s) THEN <<cur>>
    ELSE IF s[i] = LF THEN <<cur>> \o SplitLFFrom(s, i + 1, << >>)
    ELSE SplitLFFrom(s, i + 1, Append(cur, s[i]))

SplitLFOnly(s) == SplitLFFrom(s, 1, << >>)

Split(s) == SplitFrom(s, 1, << >>)

----------------------------------------------------------------------------
(* Task Descriptor Builder: the synchronous parts of getSnakemakeTasks *)

emptyTasks == << >>

\* a classification that asks isTestTask before isBuildTask
TaskGroupTestFirst(taskName) ==
    IF isTestTask(taskName) THEN "Test"
    ELSE IF isBuildTask(taskName) THEN "Build"
    ELSE "None"

\* task.group = vscode.TaskGroup.Build, for every task
TaskGroup(taskName) == "Build"

NewTask(taskName) == [name |-> taskName, task |-> taskName, group |-> TaskGroup(taskName)]

\* the for loop over the pieces of stdout
RECURSIVE TasksOf(_)
TasksOf(lines) ==
    IF lines = << >> THEN << >>
    ELSE IF Len(Head(lines)) = 0 THEN TasksOf(Tail(lines))
    ELSE <<NewTask(Head(lines))>> \o TasksOf(Tail(lines))

\* a try block that treats any stderr text as a failed pass
TryBranchStderrFails(stdout, stderr) ==
    [lines |-> IF Len(stderr) > 0 THEN <<stderr>> ELSE << >>,
     show  |-> Len(stderr) > 0,
     state |-> "fulfilled",
     value |-> IF stdout # << >> /\ Len(stderr) = 0 THEN TasksOf(Split(stdout)) ELSE << >>]

\* the body of the try block after the await: what is appended to the channel,
\* whether it is shown, and the value the pass returns
TryBranch(stdout, stderr) ==
    [lines |-> IF Len(stderr) > 0 THEN <<stderr>> ELSE << >>,
     show  |-> Len(stderr) > 0,
     state |-> "fulfilled",
     value |-> IF stdout # << >> THEN TasksOf(Split(stdout)) ELSE << >>]

\* a catch block that logs stdout before stderr
CatchBranchStdoutFirst(err) ==
    [lines |-> (IF err.stdout # << >> THEN <<err.stdout>> ELSE << >>)
               \o (IF err.stderr # << >> THEN <<err.stderr>> ELSE << >>)
               \o <<FailedMessage>>,
     show  |-> TRUE,
     state |-> "fulfilled",
     value |-> emptyTasks]

\* a catch block that logs and throws the error on
CatchBranchRethrow(err) ==
    [lines |-> (IF err.stderr # << >> THEN <<err.stderr>> ELSE << >>)
               \o (IF err.stdout # << >> THEN <<err.stdout>> ELSE << >>)
               \o <<FailedMessage>>,
     show  |-> TRUE,
     state |-> "rejected",
     value |-> emptyTasks]

\* the body of the catch block
CatchBranch(err) ==
    [lines |-> (IF err.stderr # << >> THEN <<err.stderr>> ELSE << >>)
               \o (IF err.stdout # << >> THEN <<err.stdout>> ELSE << >>)
               \o <<FailedMessage>>,
     show  |-> TRUE,
     state |-> "fulfilled",
     value |-> emptyTasks]

----------------------------------------------------------------------------
(* External Tool Invoker *)

\* a promise on which the last settlement call wins: resolve after reject
\* turns the failure into a success
execLastWins(error, stdout, stderr) ==
    LET calls == (IF error
                  THEN <<[kind |-> "reject", error |-> TRUE, stdout |-> stdout, stderr |-> stderr]>>
                  ELSE << >>)
                 \o <<[kind |-> "resolve", error |-> FALSE, stdout |-> stdout, stderr |-> stderr]>>
    IN  calls[Len(calls)]

\* The callback of cp.exec calls reject (when error is set) and then resolve;
\* a promise keeps its first settlement and ignores the later calls.
exec(error, stdout, stderr) ==
    LET calls == (IF error
                  THEN <<[kind |-> "reject", error |-> TRUE, stdout |-> stdout, stderr |-> stderr]>>
                  ELSE << >>)
                 \o <<[kind |-> "resolve", error |-> FALSE, stdout |-> stdout, stderr |-> stderr]>>
    IN  Head(calls)

----------------------------------------------------------------------------
(* State *)

NewPass == [pc |-> "exists", state |-> "pending", value |-> << >>, spawned |-> 0,
            epoch |-> epoch, fileExists |-> FALSE,
            error |-> FALSE, stdout |-> << >>, stderr |-> << >>]

PassIds == 1..Len(passes)

Pending == {p \in PassIds : passes[p].state = "pending"}

\* passes whose cp.exec call has not called back yet
InFlight == {p \in PassIds : passes[p].pc = "exec"}

Init ==
    /\ snakemakePromise = 0
    /\ passes = << >>
    /\ requests = << >>
    /\ epoch = 0
    /\ channel = << >>
    /\ shows = 0
    /\ sink = << >>
    /\ lastResolve = "not called"

----------------------------------------------------------------------------
(* Discovery Cache & Watch Coordinator *)

\* a provideTasks that discovers again when the stored pass came back empty
ProvideTasksRetryEmpty ==
    /\ Len(requests) < MaxRequests
    /\ LET start == \/ snakemakePromise = 0
                    \/ /\ passes[snakemakePromise].pc = "done"
                       /\ passes[snakemakePromise].value = << >>
           passes1 == IF start THEN Append(passes, NewPass) ELSE passes
           slot1 == IF start THEN Len(passes1) ELSE snakemakePromise
       IN  /\ start => Len(passes) < MaxPasses
           /\ passes' = passes1
           /\ snakemakePromise' = slot1
           /\ requests' = Append(requests,
                            [pass |-> slot1, epoch |-> epoch,
                             unsettled |-> {p \in 1..Len(passes1) : passes1[p].state = "pending"}])
    /\ UNCHANGED <<epoch, channel, shows, sink, lastResolve>>

\* a provideTasks that returns the new pass without storing it in the slot
ProvideTasksNoStore ==
    /\ Len(requests) < MaxRequests
    /\ snakemakePromise = 0 => Len(passes) < MaxPasses
    /\ LET start == snakemakePromise = 0
           passes1 == IF start THEN Append(passes, NewPass) ELSE passes
           slot1 == IF start THEN Len(passes1) ELSE snakemakePromise
       IN  /\ passes' = passes1
           /\ requests' = Append(requests,
                            [pass |-> slot1, epoch |-> epoch,
                             unsettled |-> {p \in 1..Len(passes1) : passes1[p].state = "pending"}])
    /\ UNCHANGED <<snakemakePromise, epoch, channel, shows, sink, lastResolve>>

\* a provideTasks that starts a pass on every request
ProvideTasksNoMemo ==
    /\ Len(requests) < MaxRequests
    /\ Len(passes) < MaxPasses
    /\ passes' = Append(passes, NewPass)
    /\ snakemakePromise' = Len(passes) + 1
    /\ requests' = Append(requests,
                     [pass |-> Len(passes) + 1, epoch |-> epoch,
                      unsettled |-> Pending \cup {Len(passes) + 1}])
    /\ UNCHANGED <<epoch, channel, shows, sink, lastResolve>>

\* provideTasks: start getSnakemakeTasks when the slot is undefined (the pass runs
\* synchronously up to its first await, the fs.exists call), store its promise,
\* and return the promise in the slot.
ProvideTasks ==
    /\ Len(requests) < MaxRequests
    /\ snakemakePromise = 0 => Len(passes) < MaxPasses
    /\ LET start == snakemakePromise = 0
           passes1 == IF start THEN Append(passes, NewPass) ELSE passes
           slot1 == IF start THEN Len(passes1) ELSE snakemakePromise
       IN  /\ passes' = passes1
           /\ snakemakePromise' = slot1
           /\ requests' = Append(requests,
                            [pass |-> slot1, epoch |-> epoch,
                             unsettled |-> {p \in 1..Len(passes1) : passes1[p].state = "pending"}])
    /\ UNCHANGED <<epoch, channel, shows, sink, lastResolve>>

\* a resolveTask that runs discovery to look the task up
ResolveTaskDiscovers(task) ==
    /\ Len(passes) < MaxPasses
    /\ lastResolve' = "undefined"
    /\ passes' = Append(passes, NewPass)
    /\ snakemakePromise' = Len(passes) + 1
    /\ UNCHANGED <<requests, epoch, channel, shows, sink>>

TaskRefs == {sBuild, sTest}

ResolveTask(task) ==
    /\ lastResolve' = "undefined"
    /\ UNCHANGED <<snakemakePromise, passes, requests, epoch, channel, shows, sink>>

\* a change handler that kills the passes still running, which then never
\* call back
OnDidChangeKills ==
    /\ epoch < MaxEvents
    /\ snakemakePromise' = 0
    /\ epoch' = epoch + 1
    /\ passes' = [p \in PassIds |->
                    IF passes[p].state = "pending"
                    THEN [passes[p] EXCEPT !.pc = "killed"]
                    ELSE passes[p]]
    /\ UNCHANGED <<requests, channel, shows, sink, lastResolve>>

\* a change handler that keeps the stored promise
OnDidChangeKeeps ==
    /\ epoch < MaxEvents
    /\ epoch' = epoch + 1
    /\ UNCHANGED <<snakemakePromise, passes, requests, channel, shows, sink, lastResolve>>

OnDidChange ==
    /\ epoch < MaxEvents
    /\ snakemakePromise' = 0
    /\ epoch' = epoch + 1
    /\ UNCHANGED <<passes, requests, channel, shows, sink, lastResolve>>

\* a create handler that also cancels the passes still running
OnDidCreateCancels ==
    /\ epoch < MaxEvents
    /\ snakemakePromise' = 0
    /\ epoch' = epoch + 1
    /\ passes' = [p \in PassIds |->
                    IF passes[p].state = "pending"
                    THEN [passes[p] EXCEPT !.pc = "done", !.state = "rejected"]
                    ELSE passes[p]]
    /\ UNCHANGED <<requests, channel, shows, sink, lastResolve>>

OnDidCreate ==
    /\ epoch < MaxEvents
    /\ snakemakePromise' = 0
    /\ epoch' = epoch + 1
    /\ UNCHANGED <<passes, requests, channel, shows, sink, lastResolve>>

\* a delete handler that leaves the slot as it is
OnDidDeleteKeeps ==
    /\ epoch < MaxEvents
    /\ epoch' = epoch + 1
    /\ UNCHANGED <<snakemakePromise, passes, requests, channel, shows, sink, lastResolve>>

OnDidDelete ==
    /\ epoch < MaxEvents
    /\ snakemakePromise' = 0
    /\ epoch' = epoch + 1
    /\ UNCHANGED <<passes, requests, channel, shows, sink, lastResolve>>

----------------------------------------------------------------------------
(* The two suspension points of a discovery pass *)

\* an existence check whose answer is ignored
ExistsCallbackIgnored(p, value) ==
    /\ p \in PassIds
    /\ passes[p].pc = "exists"
    /\ passes' = [passes EXCEPT ![p] =
            [@ EXCEPT !.pc = "exec", !.fileExists = value, !.spawned = @ + 1]]
    /\ UNCHANGED <<snakemakePromise, requests, epoch, channel, shows, sink, lastResolve>>

\* fs.exists calls back with value: return emptyTasks, or call exec and await it
ExistsCallback(p, value) ==
    /\ p \in PassIds
    /\ passes[p].pc = "exists"
    /\ passes' = [passes EXCEPT ![p] =
            IF ~value
            THEN [@ EXCEPT !.pc = "done", !.fileExists = FALSE,
                           !.state = "fulfilled", !.value = emptyTasks]
            ELSE [@ EXCEPT !.pc = "exec", !.fileExists = TRUE, !.spawned = @ + 1]]
    /\ UNCHANGED <<snakemakePromise, requests, epoch, channel, shows, sink, lastResolve>>

\* the calls a branch makes on the output channel: its appendLine calls, then
\* show(true)
SinkCalls(out) ==
    [i \in 1..Len(out.lines) |-> [call |-> "appendLine", text |-> out.lines[i]]]
    \o (IF out.show THEN <<[call |-> "show", text |-> << >>]>> ELSE << >>)

\* a completion that runs the tool a second time when the first run failed
ExecCallbackRetries(p, error, stdout, stderr) ==
    /\ p \in PassIds
    /\ passes[p].pc = "exec"
    /\ IF error /\ passes[p].spawned < 2
       THEN /\ passes' = [passes EXCEPT ![p] = [@ EXCEPT !.spawned = @ + 1]]
            /\ UNCHANGED <<channel, shows, sink>>
       ELSE LET r == exec(error, stdout, stderr)
                out == IF r.kind = "resolve" THEN TryBranch(r.stdout, r.stderr)
                                             ELSE CatchBranch(r)
            IN  /\ passes' = [passes EXCEPT ![p] =
                        [@ EXCEPT !.pc = "done", !.error = error, !.stdout = stdout,
                                  !.stderr = stderr, !.state = out.state, !.value = out.value]]
                /\ channel' = channel \o out.lines
                /\ shows' = IF out.show THEN shows + 1 ELSE shows
                /\ sink' = sink \o SinkCalls(out)
    /\ UNCHANGED <<snakemakePromise, requests, epoch, lastResolve>>

\* a completion that stores the finished pass back into the slot
ExecCallbackRecaches(p, error, stdout, stderr) ==
    /\ p \in PassIds
    /\ passes[p].pc = "exec"
    /\ LET r == exec(error, stdout, stderr)
           out == IF r.kind = "resolve" THEN TryBranch(r.stdout, r.stderr)
                                        ELSE CatchBranch(r)
       IN  /\ passes' = [passes EXCEPT ![p] =
                   [@ EXCEPT !.pc = "done", !.error = error, !.stdout = stdout,
                             !.stderr = stderr, !.state = out.state, !.value = out.value]]
           /\ channel' = channel \o out.lines
           /\ shows' = IF out.show THEN shows + 1 ELSE shows
           /\ sink' = sink \o SinkCalls(out)
    /\ snakemakePromise' = p
    /\ UNCHANGED <<requests, epoch, lastResolve>>

\* cp.exec calls back with (error, stdout, stderr): the try block resumes, or
\* the catch block runs
ExecCallback(p, error, stdout, stderr) ==
    /\ p \in PassIds
    /\ passes[p].pc = "exec"
    /\ LET r == exec(error, stdout, stderr)
           out == IF r.kind = "resolve" THEN TryBranch(r.stdout, r.stderr)
                                        ELSE CatchBranch(r)
       IN  /\ passes' = [passes EXCEPT ![p] =
                   [@ EXCEPT !.pc = "done", !.error = error, !.stdout = stdout,
                             !.stderr = stderr, !.state = out.state, !.value = out.value]]
           /\ channel' = channel \o out.lines
           /\ shows' = IF out.show THEN shows + 1 ELSE shows
           /\ sink' = sink \o SinkCalls(out)
    /\ UNCHANGED <<snakemakePromise, requests, epoch, lastResolve>>

----------------------------------------------------------------------------
(* What the external tool may print *)

sCleanup == <<"c", "l", "e", "a", "n", "u", "p">>
sWarning == <<"w", "a", "r", "n">>

\* the tool's outputs in the interleaving model
ExecStdouts == {<< >>, sBuild \o <<LF, LF>> \o sTest \o <<CR, LF>> \o sCleanup}
ExecStderrs == {<< >>, sWarning}

Next ==
    \/ ProvideTasks
    \/ \E task \in TaskRefs : ResolveTask(task)
    \/ OnDidChange
    \/ OnDidCreate
    \/ OnDidDelete
    \/ \E p \in 1..MaxPasses, value \in BOOLEAN : ExistsCallback(p, value)
    \/ \E p \in 1..MaxPasses, error \in BOOLEAN, stdout \in ExecStdouts, stderr \in ExecStderrs :
          ExecCallback(p, error, stdout, stderr)

Spec == Init /\ [][Next]_vars

----------------------------------------------------------------------------
(* The parsing of one tool output: a pass that is awaiting cp.exec receives *)
(* each output of a larger set                                              *)

sRunTests == <<"r", "u", "n", "_">> \o sTest \o <<"s">>
sUpperBuild == <<"B", "u", "i", "l", "d">>

LineNames == {<< >>, sBuild, sTest, sBuild \o sTest, sRunTests, sCompile,
              sTest \o sWatch, sCleanup, sUpperBuild, <<CR>>}
Terminators == {<< >>, <<LF>>, <<CR, LF>>}
LineTexts == {name \o term : name \in LineNames, term \in Terminators}

WideStdouts == {Concat(ls) : ls \in UNION {[1..n -> LineTexts] : n \in 0..MaxLines}}

InitParse ==
    /\ snakemakePromise = 1
    /\ passes = <<[pc |-> "exec", state |-> "pending", value |-> << >>, spawned |-> 1,
                   epoch |-> 0, fileExists |-> TRUE,
                   error |-> FALSE, stdout |-> << >>, stderr |-> << >>]>>
    /\ requests = <<[pass |-> 1, epoch |-> 0, unsettled |-> {1}]>>
    /\ epoch = 0
    /\ channel = << >>
    /\ shows = 0
    /\ sink = << >>
    /\ lastResolve = "not called"

NextParse ==
    \E p \in InFlight :
        \E error \in BOOLEAN, stdout \in WideStdouts, stderr \in ExecStderrs :
            ExecCallback(p, error, stdout, stderr)

SpecParse == InitParse /\ [][NextParse]_vars

----------------------------------------------------------------------------
(* Claims about the cache slot and the watcher, under Spec *)

ReqIds == 1..Len(requests)

PassOf(i) == passes[requests[i].pass]

\* request j was issued while the promise returned to request i was pending,
\* with no file-watch notification between the two
Overlapping(i, j) ==
    /\ i < j
    /\ requests[i].epoch = requests[j].epoch
    /\ requests[i].pass \in requests[j].unsettled

\* a pass that is past its existence check has called cp.exec once if the
\* file existed and not at all otherwise
SpawnsByFile(q) ==
    /\ q.pc = "exists" => q.spawned = 0
    /\ q.pc # "exists" => q.spawned = (IF q.fileExists THEN 1 ELSE 0)

\* C1, as stated: two requests issued before either resolves, with no
\* notification between them, trigger exactly one external-tool invocation and
\* receive the same pending computation.
C1_SingleFlightExactlyOne ==
    \A i, j \in ReqIds :
        Overlapping(i, j) =>
            /\ requests[i].pass = requests[j].pass
            /\ PassOf(i).pc = "done" => PassOf(i).spawned = 1

\* C1, amended: two requests issued before either resolves, with no
\* notification between them, start exactly one discovery pass and receive the
\* same pending computation, which is in the slot from the first request on;
\* that pass invokes the external tool exactly once if the Snakefile exists at
\* its existence check and not at all otherwise.
C1_SingleFlight ==
    /\ \A i, j \in ReqIds :
          Overlapping(i, j) =>
              /\ requests[i].pass = requests[j].pass
              /\ Cardinality({p \in PassIds : passes[p].epoch = requests[i].epoch}) = 1
              /\ PassOf(i).spawned <= 1
              /\ SpawnsByFile(PassOf(i))
    /\ \A i \in ReqIds : requests[i].epoch = epoch => snakemakePromise = requests[i].pass

C1_Witness ==
    \E i, j \in ReqIds :
        /\ Overlapping(i, j)
        /\ PassOf(j).pc = "done"
        /\ PassOf(j).spawned = 1
        /\ Len(passes) = 1

\* the first request after a notification
FirstOfEpoch(i) ==
    /\ requests[i].epoch > 0
    /\ \A k \in ReqIds : k < i => requests[k].epoch < requests[i].epoch

\* C2, as stated: a notification followed by a new request triggers a fresh
\* external-tool invocation, even if a previous discovery had resolved and was
\* cached.
C2_InvalidationInvokesTool ==
    \A i \in ReqIds :
        FirstOfEpoch(i) /\ PassOf(i).pc = "done" =>
            /\ PassOf(i).epoch = requests[i].epoch
            /\ PassOf(i).spawned = 1

\* C2, amended: a notification followed by a new request starts a fresh
\* discovery pass (one started after the notification, with its own existence
\* check), even if a previous discovery had resolved and was cached; the fresh
\* pass invokes the external tool exactly when the Snakefile exists at its
\* existence check.
C2_Invalidation ==
    \A i \in ReqIds :
        requests[i].epoch > 0 =>
            /\ PassOf(i).epoch = requests[i].epoch
            /\ \A k \in ReqIds : requests[k].epoch < requests[i].epoch =>
                  requests[k].pass # requests[i].pass
            /\ SpawnsByFile(PassOf(i))

\* a first discovery resolved with tasks before the request that follows a
\* notification, and that request's own pass called the tool again
C2_Witness ==
    \E i \in ReqIds :
        /\ FirstOfEpoch(i)
        /\ requests[i].pass = 2
        /\ 1 \notin requests[i].unsettled
        /\ passes[1].value # << >>
        /\ PassOf(i).pc = "done"
        /\ PassOf(i).spawned = 1
        /\ passes[1].spawned = 1

\* C3, as stated: at most one external-tool invocation is in flight, and all
\* callers waiting concurrently observe the same outcome.
C3_OneInFlight ==
    /\ Cardinality(InFlight) <= 1
    /\ \A i, j \in ReqIds :
          (i < j /\ requests[i].pass \in requests[j].unsettled
             /\ PassOf(i).pc = "done" /\ PassOf(j).pc = "done") =>
              /\ PassOf(i).state = PassOf(j).state
              /\ PassOf(i).value = PassOf(j).value

\* C3, amended: among the passes started since the latest notification at
\* most one exists, so at most one external-tool invocation per generation of
\* the slot is in flight (an invocation started before a notification is not
\* cancelled and may overlap the next generation's); callers waiting
\* concurrently within one generation observe the same outcome.
C3_OneInFlightPerGeneration ==
    /\ \A e \in 0..epoch :
          /\ Cardinality({p \in PassIds : passes[p].epoch = e}) <= 1
          /\ Cardinality({p \in InFlight : passes[p].epoch = e}) <= 1
    /\ Cardinality(InFlight) <= epoch + 1
    /\ snakemakePromise # 0 => passes[snakemakePromise].epoch = epoch
    /\ \A i, j \in ReqIds :
          (Overlapping(i, j) /\ PassOf(i).pc = "done" /\ PassOf(j).pc = "done") =>
              /\ PassOf(i).state = PassOf(j).state
              /\ PassOf(i).value = PassOf(j).value

\* two callers share a settled pass that returned tasks while a later
\* generation's invocation is in flight
C3_Witness ==
    \E i, j \in ReqIds :
        /\ Overlapping(i, j)
        /\ PassOf(i).pc = "done"
        /\ PassOf(i).value # << >>
        /\ InFlight # {}

----------------------------------------------------------------------------
(* Claims about one discovery pass *)

\* pass p receives the callback of cp.exec in this step
ExecReturns(p) == passes[p].pc = "exec" /\ passes'[p].pc = "done"

\* the lines this step appended to the channel
Appended == SubSeq(channel', Len(channel) + 1, Len(channel'))

\* C4: whenever the external-tool invocation fails, the pass resolves with the
\* empty sequence, never rejects, and the captured stderr text is written to
\* the log sink.
C4_FailureDegrades ==
    [][\A p \in PassIds :
          (ExecReturns(p) /\ passes'[p].error) =>
              /\ passes'[p].state = "fulfilled"
              /\ passes'[p].value = << >>
              /\ passes'[p].stderr # << >> =>
                    \E k \in 1..Len(Appended) : Appended[k] = passes'[p].stderr]_vars

C4_Witness ==
    \E p \in PassIds :
        /\ passes[p].pc = "done"
        /\ passes[p].error
        /\ passes[p].stderr = sWarning
        /\ passes[p].stdout # << >>
        /\ passes[p].state = "fulfilled"
        /\ \E k \in 1..Len(channel) : channel[k] = sWarning

\* C5: when the Snakefile does not exist at the existence check, the pass
\* resolves to the empty sequence without invoking the external tool and
\* without writing to the log sink.
C5_MissingFile ==
    [][\A p \in PassIds :
          (passes[p].pc = "exists" /\ passes'[p].pc # "exists" /\ ~passes'[p].fileExists) =>
              /\ passes'[p].pc = "done"
              /\ passes'[p].state = "fulfilled"
              /\ passes'[p].value = << >>
              /\ passes'[p].spawned = 0
              /\ channel' = channel
              /\ shows' = shows]_vars

C5_Witness ==
    \E p \in PassIds :
        /\ passes[p].pc = "done"
        /\ ~passes[p].fileExists
        /\ passes[p].spawned = 0
        /\ passes[p].state = "fulfilled"
        /\ channel = << >>

\* position i of s belongs to a line ending: it is LF, or CR right before LF
IsSep(s, i) == s[i] = LF \/ (s[i] = CR /\ i < Len(s) /\ s[i + 1] = LF)

\* the non-empty lines of s: the maximal stretches free of line endings
LineSpans(s) ==
    {r \in (1..Len(s)) \X (1..Len(s)) :
        /\ r[1] <= r[2]
        /\ \A i \in r[1]..r[2] : ~IsSep(s, i)
        /\ r[1] = 1 \/ IsSep(s, r[1] - 1)
        /\ r[2] = Len(s) \/ IsSep(s, r[2] + 1)}

Succeeded(p) == passes[p].pc = "done" /\ passes[p].fileExists /\ ~passes[p].error

\* C6: on success the names of the returned tasks are exactly the non-empty
\* lines of stdout (split on LF or CR LF), verbatim, in the tool's order, with
\* duplicates passed through; no lines or only blank lines yield no tasks.
C6_NamesAreLines ==
    \A p \in PassIds :
        Succeeded(p) =>
            LET s == passes[p].stdout
                v == passes[p].value
            IN  /\ Len(v) = Cardinality(LineSpans(s))
                /\ \A r \in LineSpans(s) :
                      LET k == 1 + Cardinality({q \in LineSpans(s) : q[1] < r[1]})
                      IN  /\ v[k].name = SubSeq(s, r[1], r[2])
                          /\ v[k].task = v[k].name

\* an output with the same name twice, one line ended by CR LF and one by LF
C6_Witness ==
    \E p \in PassIds :
        /\ Succeeded(p)
        /\ passes[p].stdout = sBuild \o <<CR, LF>> \o sBuild \o <<LF>>
        /\ Len(passes[p].value) = 2
        /\ passes[p].value[1].name = sBuild
        /\ passes[p].value[2].name = sBuild

\* s occurs in name
Contains(name, s) ==
    \E i \in 1..(Len(name) - Len(s) + 1) : \A k \in 1..Len(s) : name[i + k - 1] = s[k]

HasBuildWord(name) == Contains(name, sBuild) \/ Contains(name, sCompile) \/ Contains(name, sWatch)

\* C7: every returned task whose name contains "build", "compile" or "watch"
\* has classification Build, whether or not the name also contains "test".
C7_BuildWordsAreBuild ==
    \A p \in PassIds : \A k \in 1..Len(passes[p].value) :
        HasBuildWord(passes[p].value[k].name) => passes[p].value[k].group = "Build"

\* a returned task named "buildtest" and one named "testwatch", both Build
C7_Witness ==
    \E p \in PassIds :
        /\ Len(passes[p].value) = 2
        /\ passes[p].value[1].name = sBuild \o sTest
        /\ passes[p].value[2].name = sTest \o sWatch
        /\ passes[p].value[1].group = "Build"
        /\ passes[p].value[2].group = "Build"

\* C8: every returned task whose name contains "test" but none of the Build
\* words has classification Test, and every returned task whose name contains
\* none of the four words has classification None.
C8_TestAndNone ==
    \A p \in PassIds : \A k \in 1..Len(passes[p].value) :
        LET t == passes[p].value[k]
        IN  /\ (Contains(t.name, sTest) /\ ~HasBuildWord(t.name)) => t.group = "Test"
            /\ (~Contains(t.name, sTest) /\ ~HasBuildWord(t.name)) => t.group = "None"

\* C9: resolveTask returns undefined for every task reference in every cache
\* state, leaves the cache slot unchanged and starts no discovery pass.
C9_ResolveDeclines ==
    [][(\E task \in TaskRefs : ResolveTask(task)) =>
          /\ lastResolve' = "undefined"
          /\ snakemakePromise' = snakemakePromise
          /\ passes' = passes
          /\ requests' = requests]_vars

\* resolveTask has returned while a pass is stored and pending
C9_Witness ==
    /\ lastResolve = "undefined"
    /\ snakemakePromise # 0
    /\ passes[snakemakePromise].state = "pending"

\* C10: stderr text with a successful exit is appended to the log sink and the
\* sink is shown, the pass is not treated as failed, and the returned sequence
\* is the one the same stdout gives with empty stderr.
C10_StderrAdvisory ==
    [][\A p \in PassIds :
          (ExecReturns(p) /\ ~passes'[p].error /\ passes'[p].stderr # << >>) =>
              /\ Appended = <<passes'[p].stderr>>
              /\ shows' = shows + 1
              /\ passes'[p].state = "fulfilled"
              /\ passes'[p].value = TryBranch(passes'[p].stdout, << >>).value]_vars

C10_Witness ==
    \E p \in PassIds :
        /\ Succeeded(p)
        /\ passes[p].stderr = sWarning
        /\ Len(passes[p].value) = 3
        /\ channel = <<sWarning>>
        /\ shows = 1

----------------------------------------------------------------------------
(* Claims about invalidation during a pass, the slot and the invoker *)

\* the step is a file-watch notification
Notified == epoch' # epoch

\* the step is a provideTasks request
Requested == Len(requests') = Len(requests) + 1

\* the next callback of pass p
Resume(p) ==
    \/ \E value \in BOOLEAN : ExistsCallback(p, value)
    \/ \E error \in BOOLEAN, stdout \in ExecStdouts, stderr \in ExecStderrs :
          ExecCallback(p, error, stdout, stderr)

\* C11: a notification that arrives while a pass is in flight does not cancel
\* it: the pass is left as it is and can still complete, its callers keep
\* awaiting it and receive its result, while the slot is empty at once, so the
\* next request starts a new pass.
C11_InvalidationDoesNotCancel ==
    [][/\ Notified =>
            /\ passes' = passes
            /\ requests' = requests
            /\ snakemakePromise' = 0
       /\ \A p \in Pending : ENABLED Resume(p)
       /\ \A p \in PassIds :
            (passes[p].state = "pending" /\ passes'[p].state # "pending") =>
                /\ passes'[p].state = "fulfilled"
                /\ requests' = requests
       /\ (Requested /\ snakemakePromise = 0) =>
            /\ Len(passes') = Len(passes) + 1
            /\ requests'[Len(requests')].pass = Len(passes')
            /\ passes'[Len(passes')].pc = "exists"]_vars

\* pass 1 was in flight when the notification came, its caller has its tasks,
\* and the request after the notification started pass 2
C11_Witness ==
    /\ Len(requests) >= 2
    /\ requests[1].pass = 1
    /\ requests[2].pass = 2
    /\ 1 \in requests[2].unsettled
    /\ passes[1].fileExists
    /\ passes[1].state = "fulfilled"
    /\ passes[1].value # << >>
    /\ passes[2].epoch > passes[1].epoch

\* C12: every request issued after a notification is served by a pass that
\* was started after that notification, never by one started before it.
C12_NoStaleForNewCallers ==
    \A n \in 1..epoch : \A i \in ReqIds :
        requests[i].epoch >= n =>
            /\ PassOf(i).epoch >= n
            /\ PassOf(i).epoch <= requests[i].epoch

\* the first pass returned tasks; after two notifications a request is served
\* by a pass of the latest generation, which found no file
C12_Witness ==
    \E i \in ReqIds :
        /\ requests[i].epoch = 2
        /\ requests[i].pass = 2
        /\ passes[2].epoch = 2
        /\ passes[2].pc = "done"
        /\ ~passes[2].fileExists
        /\ passes[1].value # << >>

\* C13: the slot is empty at activation and right after every notification,
\* is filled by a request made while it is empty (with the pass that request
\* starts) and is written by nothing else; the completion of a pass never
\* changes it.
C13_SlotLifecycle ==
    /\ snakemakePromise = 0
    /\ [][/\ Notified => snakemakePromise' = 0
          /\ Requested =>
                /\ snakemakePromise' # 0
                /\ snakemakePromise # 0 => snakemakePromise' = snakemakePromise
                /\ snakemakePromise = 0 => snakemakePromise' = Len(passes')
          /\ (~Notified /\ ~Requested) => snakemakePromise' = snakemakePromise]_vars

\* pass 1 was still running at the request that followed the first
\* notification; it has finished since, and the slot is empty
C13_Witness ==
    /\ snakemakePromise = 0
    /\ Len(requests) >= 2
    /\ requests[2].epoch >= 1
    /\ 1 \in requests[2].unsettled
    /\ passes[1].pc = "done"
    /\ passes[1].fileExists

\* C14: when the process fails, the result of exec is the error value that
\* carries the captured stdout and stderr and the cause, never a success value
\* (the resolve call after reject has no effect), so the catch block runs; when
\* the process succeeds the result is the success value and the try block
\* goes on.
C14_ExecResult ==
    [][\A p \in PassIds :
          ExecReturns(p) =>
              LET q == passes'[p]
                  r == exec(q.error, q.stdout, q.stderr)
                  caught == \E k \in 1..Len(Appended) : Appended[k] = FailedMessage
              IN  /\ r.stdout = q.stdout
                  /\ r.stderr = q.stderr
                  /\ r.error = q.error
                  /\ q.error => (r.kind = "reject" /\ caught /\ q.value = << >>)
                  /\ ~q.error => (r.kind = "resolve" /\ ~caught
                                   /\ q.value = TasksOf(Split(q.stdout)))]_vars

\* a failed process whose stdout lists tasks: the pass took the catch block
C14_Witness ==
    \E p \in PassIds :
        /\ passes[p].pc = "done"
        /\ passes[p].error
        /\ Len(passes[p].stdout) > 0
        /\ passes[p].value = << >>
        /\ channel = <<passes[p].stdout, FailedMessage>>

\* the calls this step made on the output channel
Called == SubSeq(sink', Len(sink) + 1, Len(sink'))

AppendLine(text) == [call |-> "appendLine", text |-> text]

\* C15: on failure of the invocation the log sink receives, in this order, the
\* captured stderr (if non-empty), the captured stdout (if non-empty) and the
\* fixed message, and is then shown; the pass is pending before these calls
\* and resolved with the empty sequence after them.
C15_FailureLogOrder ==
    [][\A p \in PassIds :
          (ExecReturns(p) /\ passes'[p].error) =>
              LET q == passes'[p]
              IN  /\ Called = (IF q.stderr # << >> THEN <<AppendLine(q.stderr)>> ELSE << >>)
                              \o (IF q.stdout # << >> THEN <<AppendLine(q.stdout)>> ELSE << >>)
                              \o <<AppendLine(FailedMessage), [call |-> "show", text |-> << >>]>>
                  /\ passes[p].state = "pending"
                  /\ q.state = "fulfilled"
                  /\ q.value = << >>]_vars

\* a failed invocation with both stderr and stdout text, logged in that order
C15_Witness ==
    \E p \in PassIds :
        /\ passes[p].pc = "done"
        /\ passes[p].error
        /\ passes[p].stderr = sWarning
        /\ Len(passes[p].stdout) > 0
        /\ passes[p].state = "fulfilled"
        /\ sink = <<AppendLine(sWarning), AppendLine(passes[p].stdout),
                    AppendLine(FailedMessage), [call |-> "show", text |-> << >>]>>

\* the number of cp.exec calls made by the first n passes
RECURSIVE SpawnedUpTo(_)
SpawnedUpTo(n) == IF n = 0 THEN 0 ELSE passes[n].spawned + SpawnedUpTo(n - 1)

\* C16: each pass spawns at most one child process (exactly one when the
\* Snakefile exists at its check, none otherwise) and never retries, so the
\* number of tool invocations never exceeds the number of passes started.
C16_OneSpawnPerPass ==
    /\ \A p \in PassIds :
          /\ passes[p].spawned <= 1
          /\ SpawnsByFile(passes[p])
          /\ passes[p].pc = "done" /\ passes[p].error => passes[p].spawned = 1
    /\ SpawnedUpTo(Len(passes)) <= Len(passes)

\* two passes: one failed after its single invocation, one found no file
C16_Witness ==
    /\ Len(passes) = 2
    /\ passes[1].pc = "done" /\ passes[1].error /\ passes[1].spawned = 1
    /\ passes[2].pc = "done" /\ ~passes[2].fileExists /\ passes[2].spawned = 0
    /\ SpawnedUpTo(2) = 1

----------------------------------------------------------------------------
(* Termination of a pass.  fs.exists and cp.exec each call back eventually   *)
(* (the tool is assumed to return): every pending callback of every pass is *)
(* weakly fair.  Requests and notifications are under no fairness.          *)

\* Whether a pass settles does not depend on what the tool prints: here the
\* tool fails or succeeds with the outputs above and no stderr text.
LiveStdouts == ExecStdouts
LiveStderrs == {<< >>}

NextLive ==
    \/ ProvideTasks
    \/ \E task \in TaskRefs : ResolveTask(task)
    \/ OnDidChange
    \/ OnDidCreate
    \/ OnDidDelete
    \/ \E p \in 1..MaxPasses, value \in BOOLEAN : ExistsCallback(p, value)
    \/ \E p \in 1..MaxPasses, error \in BOOLEAN, stdout \in LiveStdouts, stderr \in LiveStderrs :
          ExecCallback(p, error, stdout, stderr)

SpecLive ==
    /\ Init
    /\ [][NextLive]_vars
    /\ \A p \in 1..MaxPasses :
          /\ WF_vars(\E value \in BOOLEAN : ExistsCallback(p, value))
          /\ WF_vars(\E error \in BOOLEAN, stdout \in LiveStdouts, stderr \in LiveStderrs :
                        ExecCallback(p, error, stdout, stderr))

\* C17: every started pass eventually settles, with a task sequence or the
\* empty sequence, whatever notifications and requests arrive meanwhile.
C17_PassSettles ==
    \A p \in 1..MaxPasses :
        (Len(passes) >= p) ~> (Len(passes) >= p /\ passes[p].state = "fulfilled")

\* pass 1 settled with tasks although a notification and the request that
\* started pass 2 arrived while it was running
C17_Witness ==
    /\ Len(passes) = 2
    /\ Len(requests) >= 2
    /\ 1 \in requests[2].unsettled
    /\ passes[2].epoch > passes[1].epoch
    /\ passes[1].state = "fulfilled"
    /\ Len(passes[1].value) = 3
    /\ passes[2].state = "fulfilled"

----------------------------------------------------------------------------
(* Memoization of an empty outcome *)

\* pass p resolved to the empty sequence because the file was missing or the
\* invocation failed
EmptyByFailure(p) ==
    /\ passes[p].pc = "done"
    /\ passes[p].value = << >>
    /\ ~passes[p].fileExists \/ passes[p].error

\* C18: once a pass has resolved to the empty sequence because the invocation
\* failed or the file was missing, every later request returns that same
\* cached result without a new existence check or tool run, until a
\* notification clears the slot.
C18_EmptyIsMemoized ==
    [][\A p \in PassIds :
          (EmptyByFailure(p) /\ passes[p].epoch = epoch) =>
              /\ snakemakePromise = p
              /\ Requested =>
                    /\ requests'[Len(requests')].pass = p
                    /\ passes' = passes
                    /\ snakemakePromise' = p
                    /\ sink' = sink
              /\ snakemakePromise' # p => Notified]_vars

\* a request issued after its pass had failed got that settled pass, and the
\* tool ran once
C18_Witness ==
    \E i \in ReqIds :
        /\ requests[i].pass \notin requests[i].unsettled
        /\ PassOf(i).error
        /\ PassOf(i).value = << >>
        /\ PassOf(i).spawned = 1
        /\ Len(passes) = 1

====
